---- MODULE Spec2Model ----
(***************************************************************************)
(* The doiuse language server (src/src/server.ts, lines 1-278): settings,  *)
(* the browser-list cache, the per-document validation pipeline and the    *)
(* batch orchestration, as a state machine over the events the connection  *)
(* and the document manager deliver.                                       *)
(***************************************************************************)
EXTENDS Integers, Sequences, FiniteSets, TLC

VARIABLES
    phase,              \* "created" until onInitialize answered, then "ready"
    workspaceFolder,    \* path segments of params.rootPath
    linter,             \* "undefined" or "doiuse" (the required module)
    editorSettings,     \* Undefined or the doiuse settings section
    needUpdateConfig,   \* TRUE: the next getBrowsersList scans
    browsersListCache,  \* last scanned browser list
    projectFiles,       \* browserslist declarations on disk, per directory
    allDocuments,       \* open documents, in opening order: [uri, text]
    passes,             \* validateDocument calls in flight, by pass number
    batches,            \* the trackers of the validate calls they belong to
    published,          \* per uri, the diagnostics the client holds
    basis,              \* per uri, the text and settings of the pass that
                        \* published last, while the settings stay as they are
    lastStep,           \* the step that produced this state and its output
    nEvents             \* events counted against MaxEvents

vars == <<phase, workspaceFolder, linter, editorSettings, needUpdateConfig,
          browsersListCache, projectFiles, allDocuments, passes, batches,
          published, basis, lastStep, nEvents>>

(* ------------------------------ bounds -------------------------------- *)

MaxEvents == 3

\* events delivered to a server that starts with its documents open
MaxOpenEvents == 2

\* events delivered after the first configuration to the server under fair
\* scheduling
MaxFairEvents == 2

\* the longest text handed to browsersListParser
MaxData == 4

\* the last line and the last column of a source position
MaxLine == 3
MaxColumn == 3

(* ------------------------------ domains ------------------------------- *)

\* DiagnosticSeverity of vscode-languageserver, as used in severityLevel
SeverityError == 1
SeverityWarning == 2
SeverityInformation == 3

Uris == {"u1", "u2"}

\* Files.uriToFilePath(uri), as path segments ("" first: an absolute path)
uriToFilePath(uri) ==
    IF uri = "u1" THEN <<"", "w", "dist", "app.min.css">>
                  ELSE <<"", "w", "src", "main.scss">>

languageId(uri) == IF uri = "u1" THEN "css" ELSE "scss"

\* "grid" is plain CSS using three features; "slashes" uses none and holds a
\* // comment, which only the Less and SCSS grammars accept
Texts == {"grid", "slashes"}

Undefined ==
    [messageLevel |-> "undefined", browsers |-> <<>>, ignore |-> <<>>,
     ignoreFiles |-> <<>>, run |-> "undefined"]

\* glob patterns as segment patterns: "**", a literal, or "*" and a suffix
GlobMinCss == <<[kind |-> "globstar", text |-> ""], [kind |-> "star", text |-> ".min.css"]>>
GlobSrc == <<[kind |-> "lit", text |-> "src"], [kind |-> "globstar", text |-> ""]>>

Settings(level, browsers, ignoreFiles, run) ==
    [messageLevel |-> level, browsers |-> browsers, ignore |-> <<>>,
     ignoreFiles |-> ignoreFiles, run |-> run]

\* the settings sections a configuration change delivers
SettingsDomain ==
    {Settings("Warning", <<>>, <<>>, "onType"),
     Settings("Error", <<"ie >= 9">>, <<>>, "onType"),
     Settings("Information", <<"ie >= 9">>, <<>>, "onSave"),
     Settings("Warning", <<>>, <<GlobMinCss>>, "onType"),
     Settings("Error", <<>>, <<GlobSrc>>, "onSave")}

NoFile == [found |-> FALSE, readable |-> TRUE, json |-> <<>>]
File(list) == [found |-> TRUE, readable |-> TRUE, json |-> list]
Malformed == [found |-> TRUE, readable |-> FALSE, json |-> <<>>]

\* what the workspace holds: a declaration at the root and one under dist/
NoProject == [root |-> NoFile, dist |-> NoFile]

\* what a change of the watched files leaves
ProjectStates ==
    {[root |-> File(<<"last 2 versions">>), dist |-> NoFile],
     [root |-> File(<<"last 2 versions">>), dist |-> File(<<"> 1%">>)],
     [root |-> Malformed, dist |-> NoFile]}

(* --------------------------- pure functions --------------------------- *)

Range(s) == {s[i] : i \in 1..Len(s)}

\* the suffixes "*<suffix>" can match, per file name
Suffixes(name) ==
    IF name = "app.min.css" THEN {"", ".css", ".min.css"}
    ELSE IF name = "main.scss" THEN {"", ".scss"}
    ELSE {""}

MatchSegment(pat, seg) ==
    IF pat.kind = "lit" THEN seg = pat.text
    ELSE pat.text \in Suffixes(seg)

\* micromatch of one path against one pattern
RECURSIVE MatchGlob(_, _)
MatchGlob(pats, segs) ==
    IF pats = <<>> THEN segs = <<>>
    ELSE IF Head(pats).kind = "globstar"
         THEN \E k \in 0..Len(segs) :
                MatchGlob(Tail(pats), SubSeq(segs, k + 1, Len(segs)))
    ELSE /\ segs # <<>>
         /\ MatchSegment(Head(pats), Head(segs))
         /\ MatchGlob(Tail(pats), Tail(segs))

\* micromatch([fsPath], patterns): the paths of the list some pattern matches
micromatch(list, patterns) ==
    {p \in Range(list) : \E i \in 1..Len(patterns) : MatchGlob(patterns[i], p)}

IsPrefix(a, b) == Len(a) <= Len(b) /\ SubSeq(b, 1, Len(a)) = a

\* path.relative(from, to) for a file under the folder
relative(from, to) ==
    IF IsPrefix(from, to) THEN SubSeq(to, Len(from) + 1, Len(to))
    ELSE <<"..">> \o to

\* the language identifiers a document can carry: the six the server is
\* activated for and others it does not know
Languages ==
    {"css", "less", "scss", "sass", "sass-indented", "stylus",
     "", "CSS", "Less", "SCSS", "postcss", "html", "plaintext"}

\* getSyntax taking the SCSS module for 'sass'
getSyntaxSassAsScss(language) ==
    CASE language = "less" -> "postcss-less"
      [] language \in {"scss", "sass"} -> "postcss-scss"
      [] language \in {"sass-indented", "stylus"} -> "sugarss"
      [] OTHER -> "false"

\* getSyntax: the syntax module required for a language, "false" for none
getSyntax(language) ==
    CASE language = "less" -> "postcss-less"
      [] language = "scss" -> "postcss-scss"
      [] language \in {"sass-indented", "sass", "stylus"} -> "sugarss"
      [] OTHER -> "false"

(* --------------------------- browsersListParser ----------------------- *)

\* the characters of a declaration file: a letter, the comment sign, a
\* blank and the two line break characters
Chars == {"a", "#", " ", "\n", "\r"}

\* the texts of at most MaxData characters, as sequences of characters
Data == UNION {[1..n -> Chars] : n \in 0..MaxData}

LineTerminators == {"\n", "\r"}

\* the index of the first character from i on that "." does not match
\* (a line terminator), Len(data) + 1 when there is none
RECURSIVE RunEnd(_, _)
RunEnd(data, i) ==
    IF i > Len(data) \/ data[i] \in LineTerminators THEN i
    ELSE RunEnd(data, i + 1)

\* data.replace(/#.*(?:\n|\r\n)/g, ''): a match starts at a "#" anywhere,
\* runs to the end of the line and takes the line break; without a line
\* break after it there is no match
RECURSIVE stripComments(_)
stripComments(data) ==
    IF data = <<>> THEN <<>>
    ELSE IF Head(data) # "#" THEN <<Head(data)>> \o stripComments(Tail(data))
    ELSE LET k == RunEnd(data, 2)
         IN  IF k <= Len(data) /\ data[k] = "\n"
             THEN stripComments(SubSeq(data, k + 1, Len(data)))
             ELSE IF k + 1 <= Len(data) /\ data[k] = "\r" /\ data[k + 1] = "\n"
             THEN stripComments(SubSeq(data, k + 2, Len(data)))
             ELSE <<"#">> \o stripComments(Tail(data))

\* the index of the first "\n" from i on, Len(data) + 1 when there is none
RECURSIVE NextBreak(_, _)
NextBreak(data, i) ==
    IF i > Len(data) \/ data[i] = "\n" THEN i ELSE NextBreak(data, i + 1)

\* data.split(/\r?\n/)
RECURSIVE split(_)
split(data) ==
    LET k == NextBreak(data, 1)
    IN  IF k > Len(data) THEN <<data>>
        ELSE <<IF k > 1 /\ data[k - 1] = "\r" THEN SubSeq(data, 1, k - 2)
               ELSE SubSeq(data, 1, k - 1)>>
             \o split(SubSeq(data, k + 1, Len(data)))

WhiteSpace == {" ", "\n", "\r"}

\* line.trim()
RECURSIVE trim(_)
trim(line) ==
    IF line = <<>> THEN <<>>
    ELSE IF Head(line) \in WhiteSpace THEN trim(Tail(line))
    ELSE IF line[Len(line)] \in WhiteSpace THEN trim(SubSeq(line, 1, Len(line) - 1))
    ELSE line

\* browsersListParser(data): the lines that are not '' before trimming, trimmed
browsersListParser(data) ==
    LET lines == SelectSeq(split(stripComments(data)), LAMBDA line : line # <<>>)
    IN  [k \in 1..Len(lines) |-> trim(lines[k])]

(* ------------------- the engine (doiuse under postcss) ---------------- *)

Pos(l, c) == [line |-> l, column |-> c]

\* the feature uses of a text, with the 1-based source range of each
Usages(text) ==
    IF text = "grid"
    THEN <<[feature |-> "css-grid", source |-> [start |-> Pos(1, 1), end |-> Pos(1, 13)]],
           [feature |-> "flexbox", source |-> [start |-> Pos(2, 3), end |-> Pos(2, 16)]],
           [feature |-> "rem", source |-> [start |-> Pos(3, 5), end |-> Pos(3, 9)]]>>
    ELSE <<>>

\* support of a feature by the selected browsers: "missing", "partial",
\* "none" (reported with neither flag) or "supported" (not reported)
Support(feature, browsers) ==
    CASE browsers = <<"ie >= 9">> ->
            (IF feature = "css-grid" THEN "missing" ELSE "partial")
      [] browsers = <<"last 2 versions">> ->
            (IF feature = "css-grid" THEN "partial" ELSE "supported")
      [] browsers = <<"> 1%">> ->
            (IF feature = "rem" THEN "none" ELSE "partial")
      [] OTHER -> "supported"

PositionPrefix(u) == "<input css 1>:" \o ToString(u.source.start.line) \o ":"
                        \o ToString(u.source.start.column) \o ": "

\* the usageInfo handed to onFeatureUsage for one reported use
UsageInfo(u, browsers) ==
    [feature |-> u.feature,
     missing |-> Support(u.feature, browsers) = "missing",
     partial |-> Support(u.feature, browsers) = "partial",
     message |-> <<PositionPrefix(u), u.feature \o " not supported">>,
     source |-> u.source]

RECURSIVE Report(_, _, _)
Report(usages, browsers, ignore) ==
    IF usages = <<>> THEN <<>>
    ELSE (IF /\ Support(Head(usages).feature, browsers) # "supported"
             /\ Head(usages).feature \notin Range(ignore)
          THEN <<UsageInfo(Head(usages), browsers)>> ELSE <<>>)
         \o Report(Tail(usages), browsers, ignore)

\* the onFeatureUsage calls of one run of the plugin, in order
Findings(text, browsers, ignore) == Report(Usages(text), browsers, ignore)

\* the parser rejects the text (CssSyntaxError): syntax "false" is the
\* default CSS grammar
ParseFails(text, syntax) == text = "slashes" /\ syntax \in {"false", "sugarss"}

\* the second argument of process (line 177): syntax && { syntax }
processOptions(syntax) == IF syntax = "false" THEN "false" ELSE <<syntax>>

\* the grammar postcss parses with under these options: its own when no
\* syntax is given
GrammarOf(options) == IF options = "false" THEN "css" ELSE options[1]

(* ----------------------------- diagnostics ---------------------------- *)

severityLevel(level) ==
    CASE level = "Error" -> SeverityError
      [] level = "Information" -> SeverityInformation
      [] level = "Warning" -> SeverityWarning
      [] OTHER -> 0

IsPositionPrefix(part) ==
    \E l \in 1..9, c \in 1..9 :
        part = "<input css 1>:" \o ToString(l) \o ":" \o ToString(c) \o ": "

\* message.replace(/<input css \d+>:\d*:\d*:\s/, ''): the first match goes
RECURSIVE stripPrefix(_)
stripPrefix(message) ==
    IF message = <<>> THEN <<>>
    ELSE IF IsPositionPrefix(Head(message)) THEN Tail(message)
    ELSE <<Head(message)>> \o stripPrefix(Tail(message))

\* the classification by the flags of a finding: missing, partial, neither
FlagSeverity(problem) ==
    IF problem.missing THEN SeverityError
    ELSE IF problem.partial THEN SeverityWarning
    ELSE SeverityInformation

\* makeDiagnostic with the severity taken from the flags of the finding
makeDiagnosticByFlags(problem) ==
    [severity |-> FlagSeverity(problem),
     message |-> stripPrefix(problem.message),
     range |-> [start |-> [line |-> problem.source.start.line - 1,
                           character |-> problem.source.start.column - 1],
                end |-> [line |-> problem.source.end.line - 1,
                         character |-> problem.source.end.column]],
     code |-> problem.feature,
     source |-> "doiuse"]

\* makeDiagnostic with the end column decremented like the start column
makeDiagnosticEndDecremented(problem) ==
    [severity |-> severityLevel(editorSettings.messageLevel),
     message |-> stripPrefix(problem.message),
     range |-> [start |-> [line |-> problem.source.start.line - 1,
                           character |-> problem.source.start.column - 1],
                end |-> [line |-> problem.source.end.line - 1,
                         character |-> problem.source.end.column - 1]],
     code |-> problem.feature,
     source |-> "doiuse"]

makeDiagnostic(problem) ==
    [severity |-> severityLevel(editorSettings.messageLevel),
     message |-> stripPrefix(problem.message),
     range |-> [start |-> [line |-> problem.source.start.line - 1,
                           character |-> problem.source.start.column - 1],
                end |-> [line |-> problem.source.end.line - 1,
                         character |-> problem.source.end.column]],
     code |-> problem.feature,
     source |-> "doiuse"]

getErrorMessage(err, uri) == [message |-> err, fsPath |-> uriToFilePath(uri)]

(* --------------------------- target resolution ------------------------ *)

\* configResolver.scan(documentFsPath, options): the explicit setting when
\* it is not empty, else the declaration of the nearest directory, else
\* none; a declaration that cannot be read rejects the promise
scan(documentFsPath, settingsBrowsers, files) ==
    IF settingsBrowsers # <<>>
    THEN [ok |-> TRUE, from |-> "settings", json |-> settingsBrowsers]
    ELSE IF "dist" \in Range(documentFsPath) /\ files.dist.found
         THEN [ok |-> files.dist.readable, from |-> "dist", json |-> files.dist.json]
    ELSE IF files.root.found
         THEN [ok |-> files.root.readable, from |-> "root", json |-> files.root.json]
    ELSE [ok |-> TRUE, from |-> "none", json |-> <<>>]

(* ---------------------------- validateDocument ------------------------ *)

\* the path matched against ignoreFiles, and later handed to getBrowsersList
fsPathOf(uri, settings) ==
    IF Len(settings.ignoreFiles) # 0 /\ workspaceFolder # <<>>
    THEN relative(workspaceFolder, uriToFilePath(uri))
    ELSE uriToFilePath(uri)

\* ignoredFile matching the absolute path, whatever the workspace folder
ignoredFileAbsolute(uri, settings) ==
    /\ Len(settings.ignoreFiles) # 0
    /\ micromatch(<<uriToFilePath(uri)>>, settings.ignoreFiles) # {}

\* validateDocument returns the empty array at once (lines 157-166)
ignoredFile(uri, settings) ==
    /\ Len(settings.ignoreFiles) # 0
    /\ micromatch(<<fsPathOf(uri, settings)>>, settings.ignoreFiles) # {}

\* validateDocument(document) up to its return, as the record of the pass;
\* settings and needUpdate are editorSettings and needUpdateConfig at the call
validateDocument(doc, batch, trigger, settings, needUpdate) ==
    LET base == [uri |-> doc.uri, text |-> doc.text,
                 syntax |-> getSyntax(languageId(doc.uri)),
                 fsPath |-> uriToFilePath(doc.uri), batch |-> batch,
                 trigger |-> trigger, settings |-> settings,
                 cacheHit |-> FALSE, browsersList |-> <<>>, ignore |-> <<>>,
                 seen |-> {}, pc |-> "threw"]
    IN  IF settings = Undefined THEN base
        ELSE IF ignoredFile(doc.uri, settings)
             THEN [base EXCEPT !.pc = "ignored", !.fsPath = fsPathOf(doc.uri, settings)]
        ELSE IF ~needUpdate
             THEN [base EXCEPT !.pc = "resolved", !.fsPath = fsPathOf(doc.uri, settings),
                               !.cacheHit = TRUE,
                               !.browsersList = browsersListCache]
        ELSE [base EXCEPT !.pc = "scanning", !.fsPath = fsPathOf(doc.uri, settings)]

\* a pass whose validateDocument call made the map callback of validate throw:
\* reading a property of undefined settings, or .catch of the returned array
Throws(pass) == pass.pc \in {"threw", "ignored"}

\* the documents validate reaches: up to and including the first that throws
RECURSIVE Reached(_, _, _, _, _)
Reached(documents, batch, trigger, settings, needUpdate) ==
    IF documents = <<>> THEN <<>>
    ELSE LET pass == validateDocument(Head(documents), batch, trigger, settings, needUpdate)
         IN  IF Throws(pass) THEN <<pass>>
             ELSE <<pass>> \o Reached(Tail(documents), batch, trigger, settings, needUpdate)

InFlight(pass) == pass.pc \in {"resolved", "scanning", "processing"}

\* tracker.add: one entry per distinct message
trackerAdd(errors, message) ==
    IF message \in Range(errors) THEN errors ELSE Append(errors, message)

\* validate(documents): the passes it starts and its tracker; the promises
\* reach Promise.all only when the map did not throw
validate(documents, trigger, settings, needUpdate) ==
    LET batch == Len(batches) + 1
        started == Reached(documents, batch, trigger, settings, needUpdate)
        threw == started # <<>> /\ Throws(started[Len(started)])
        pending == SelectSeq(started, InFlight)
    IN  [started |-> started,
         pending |-> pending,
         threw |-> threw,
         tracker |-> [armed |-> ~threw,
                      waiting |-> {Len(passes) + i : i \in 1..Len(pending)},
                      errors |-> <<>>]]

(* -------------------------------- state ------------------------------- *)

\* the place of a pass that has ended
Finished ==
    [uri |-> "", text |-> "", syntax |-> "", fsPath |-> <<>>, batch |-> 0,
     trigger |-> "", settings |-> Undefined, cacheHit |-> FALSE,
     browsersList |-> <<>>, ignore |-> <<>>, seen |-> {}, pc |-> "done"]

Step(kind, uri, threw, started) ==
    [kind |-> kind, uri |-> uri, threw |-> threw, started |-> started,
     input |-> <<>>, result |-> "", sent |-> <<>>, shown |-> <<>>,
     logged |-> 0, pass |-> Finished]

\* no pass has published for the uri under the settings in force
NoBasis == [text |-> "", settings |-> Undefined]

UrisOf(seq) == [i \in 1..Len(seq) |-> seq[i].uri]

Init ==
    /\ phase = "created"
    /\ workspaceFolder = <<>>
    /\ linter = "undefined"
    /\ editorSettings = Undefined
    /\ needUpdateConfig = TRUE
    /\ browsersListCache = <<>>
    /\ projectFiles = NoProject
    /\ allDocuments = <<>>
    /\ passes = <<>>
    /\ batches = <<>>
    /\ published = [u \in Uris |-> [known |-> FALSE, diagnostics |-> <<>>]]
    /\ basis = [u \in Uris |-> NoBasis]
    /\ lastStep = Step("init", "", FALSE, <<>>)
    /\ nEvents = 0

\* promise reactions already queued run before the next message is read
MicrotaskPending == \E p \in 1..Len(passes) : passes[p].pc = "resolved"

CanDeliver == phase = "ready" /\ nEvents < MaxEvents /\ ~MicrotaskPending

IsOpen(uri) == \E i \in 1..Len(allDocuments) : allDocuments[i].uri = uri

DocumentOf(uri) == allDocuments[CHOOSE i \in 1..Len(allDocuments) : allDocuments[i].uri = uri]

\* pass and batch numbers mean nothing once no pass is in flight
Commit(newPasses, newBatches) ==
    IF \A i \in 1..Len(newPasses) : ~InFlight(newPasses[i])
    THEN passes' = <<>> /\ batches' = <<>>
    ELSE passes' = newPasses /\ batches' = newBatches

\* params.initializationOptions: absent, {} or an object with keys
InitializationOptions == {"absent", "empty", "settings"}

\* the test of line 234 taking every object, {} included, for supplied settings
hasOptionsObject(initializationOptions) == initializationOptions # "absent"

\* params.initializationOptions && Object.keys(...).length !== 0 (line 234)
hasOptions(initializationOptions) == initializationOptions \notin {"absent", "empty"}

\* connection.onInitialize; resolved is how resolveOne and require ended:
\* "found", "missing" (no module path) or "failed" (any other error)
Initialize(rootPath, resolved, initializationOptions) ==
    /\ phase = "created"
    /\ workspaceFolder' = rootPath
    /\ linter' = IF resolved = "found" THEN "doiuse" ELSE linter
    /\ phase' = IF resolved = "missing" /\ hasOptions(initializationOptions)
                THEN phase ELSE "ready"
    /\ lastStep' = [Step("initialize", "", FALSE, <<>>) EXCEPT
                      !.input = <<resolved, initializationOptions>>,
                      !.result = IF resolved = "found" THEN "capabilities"
                                 ELSE IF /\ resolved = "missing"
                                         /\ hasOptions(initializationOptions)
                                      THEN "retry" ELSE "null",
                      !.logged = IF resolved = "failed" THEN 1 ELSE 0]
    /\ UNCHANGED <<editorSettings, needUpdateConfig, browsersListCache,
                   projectFiles, allDocuments, passes, batches, published,
                   basis, nEvents>>

\* the effect of one validate call on passes and batches
RunValidate(v) == Commit(passes \o v.pending, Append(batches, v.tracker))

\* connection.onDidChangeConfiguration
ChangeConfiguration(settings) ==
    /\ CanDeliver
    /\ editorSettings' = settings
    /\ LET v == validate(allDocuments, "config", settings, needUpdateConfig)
       IN  /\ RunValidate(v)
           /\ lastStep' = Step("config", "", v.threw, v.started)
    /\ basis' = IF settings = editorSettings THEN basis
                ELSE [u \in Uris |-> NoBasis]
    /\ nEvents' = nEvents + 1
    /\ UNCHANGED <<phase, workspaceFolder, linter, needUpdateConfig,
                   browsersListCache, projectFiles, allDocuments, published>>

\* the passes once the declarations on disk change to files: a scan in
\* flight may already have read the declarations as they were (field seen)
Overtaken(files) ==
    [p \in 1..Len(passes) |->
        IF passes[p].pc = "scanning" /\ files # projectFiles
        THEN [passes[p] EXCEPT !.seen = @ \cup {projectFiles}]
        ELSE passes[p]]

\* connection.onDidChangeWatchedFiles, for a change of the declarations
ChangeWatchedFiles(files) ==
    /\ CanDeliver
    /\ projectFiles' = files
    /\ needUpdateConfig' = TRUE
    /\ LET v == validate(allDocuments, "watched", editorSettings, TRUE)
       IN  /\ Commit(Overtaken(files) \o v.pending, Append(batches, v.tracker))
           /\ lastStep' = Step("watched", "", v.threw, v.started)
    /\ nEvents' = nEvents + 1
    /\ UNCHANGED <<phase, workspaceFolder, linter, editorSettings,
                   browsersListCache, allDocuments, published, basis>>

\* a content-change guard that only asks for settings
validatesAlways(settings) == TRUE

\* the guards of the two document handlers (lines 260 and 266)
validatesOnChange(settings) == settings.run = "onType"

validatesOnSave(settings) == settings.run = "onSave"

\* a document handler: reading .run of undefined settings throws
Handle(kind, doc, wanted) ==
    IF editorSettings = Undefined
    THEN /\ UNCHANGED <<passes, batches>>
         /\ lastStep' = Step(kind, doc.uri, TRUE, <<>>)
    ELSE IF wanted
    THEN LET v == validate(<<doc>>, kind, editorSettings, needUpdateConfig)
         IN  /\ RunValidate(v)
             /\ lastStep' = Step(kind, doc.uri, v.threw, v.started)
    ELSE /\ UNCHANGED <<passes, batches>>
         /\ lastStep' = Step(kind, doc.uri, FALSE, <<>>)

\* didOpen: the document manager adds the document and fires onDidChangeContent
DidOpen(uri, text) ==
    /\ CanDeliver
    /\ ~IsOpen(uri)
    /\ allDocuments' = Append(allDocuments, [uri |-> uri, text |-> text])
    /\ Handle("open", [uri |-> uri, text |-> text], validatesOnChange(editorSettings))
    /\ nEvents' = nEvents + 1
    /\ UNCHANGED <<phase, workspaceFolder, linter, editorSettings,
                   needUpdateConfig, browsersListCache, projectFiles, published,
                   basis>>

\* didChange: the document manager updates the text and fires onDidChangeContent
DidChange(uri, text) ==
    /\ CanDeliver
    /\ IsOpen(uri)
    /\ DocumentOf(uri).text # text
    /\ allDocuments' = [i \in 1..Len(allDocuments) |->
                          IF allDocuments[i].uri = uri
                          THEN [uri |-> uri, text |-> text] ELSE allDocuments[i]]
    /\ Handle("change", [uri |-> uri, text |-> text], validatesOnChange(editorSettings))
    /\ nEvents' = nEvents + 1
    /\ UNCHANGED <<phase, workspaceFolder, linter, editorSettings,
                   needUpdateConfig, browsersListCache, projectFiles, published,
                   basis>>

\* allDocuments.onDidSave
DidSave(uri) ==
    /\ CanDeliver
    /\ IsOpen(uri)
    /\ Handle("save", DocumentOf(uri), validatesOnSave(editorSettings))
    /\ nEvents' = nEvents + 1
    /\ UNCHANGED <<phase, workspaceFolder, linter, editorSettings,
                   needUpdateConfig, browsersListCache, projectFiles,
                   allDocuments, published, basis>>

\* one connection.sendDiagnostics call; findings are the onFeatureUsage
\* calls the diagnostics were built from
Publication(uri, diagnostics, findings) ==
    [uri |-> uri, diagnostics |-> diagnostics, findings |-> findings]

\* a client state in which a publication is added to what is held
ReceiveAppending(pub) ==
    [published EXCEPT ![pub.uri] =
        [known |-> TRUE, diagnostics |-> @.diagnostics \o pub.diagnostics]]

Receive(pub) ==
    [published EXCEPT ![pub.uri] = [known |-> TRUE, diagnostics |-> pub.diagnostics]]

\* a close handler that drops the document and sends nothing
DidCloseSilent(uri) ==
    /\ CanDeliver
    /\ IsOpen(uri)
    /\ allDocuments' = SelectSeq(allDocuments, LAMBDA d : d.uri # uri)
    /\ lastStep' = Step("close", uri, FALSE, <<>>)
    /\ nEvents' = nEvents + 1
    /\ UNCHANGED <<phase, workspaceFolder, linter, editorSettings,
                   needUpdateConfig, browsersListCache, projectFiles, passes,
                   batches, published, basis>>

\* didClose: the document manager drops the document and fires onDidClose
DidClose(uri) ==
    /\ CanDeliver
    /\ IsOpen(uri)
    /\ allDocuments' = SelectSeq(allDocuments, LAMBDA d : d.uri # uri)
    /\ published' = Receive(Publication(uri, <<>>, <<>>))
    /\ basis' = [basis EXCEPT ![uri] = NoBasis]
    /\ lastStep' = [Step("close", uri, FALSE, <<>>) EXCEPT
                      !.sent = <<Publication(uri, <<>>, <<>>)>>]
    /\ nEvents' = nEvents + 1
    /\ UNCHANGED <<phase, workspaceFolder, linter, editorSettings,
                   needUpdateConfig, browsersListCache, projectFiles, passes,
                   batches>>

(* ------------------------- promise continuations ---------------------- *)

\* the promise validate holds for pass p settles; err is "" when it resolved.
\* When the last one of an armed batch settles, tracker.sendErrors runs.
settle(p, err) ==
    LET b == passes[p].batch
        errors == IF err = "" THEN batches[b].errors
                  ELSE trackerAdd(batches[b].errors, getErrorMessage(err, passes[p].uri))
        waiting == batches[b].waiting \ {p}
    IN  [batches |-> [batches EXCEPT ![b] = [armed |-> batches[b].armed,
                                              waiting |-> waiting,
                                              errors |-> errors]],
         shown |-> IF batches[b].armed /\ waiting = {} THEN errors ELSE <<>>]

\* the callback given to getBrowsersList(...).then (lines 169-184), up to
\* the start of postcss(...).process: the pass after it and what it threw
lint(p, browsersList) ==
    IF linter = "undefined"
    THEN [pass |-> [passes[p] EXCEPT !.pc = "rejected", !.seen = {},
                                     !.browsersList = browsersList],
          err |-> "linter is not a function"]
    ELSE [pass |-> [passes[p] EXCEPT !.pc = "processing", !.seen = {},
                                     !.browsersList = browsersList,
                                     !.ignore = editorSettings.ignore],
          err |-> ""]

\* pass p moves on as `pass`, its promise settled with err
Advance(kind, p, pass, err) ==
    LET s == settle(p, err)
    IN  /\ Commit([passes EXCEPT ![p] = IF InFlight(pass) THEN pass ELSE Finished],
                  s.batches)
        /\ lastStep' = [Step(kind, pass.uri, FALSE, <<>>) EXCEPT
                          !.shown = s.shown, !.pass = pass]

\* getBrowsersList answered from the cache: Promise.resolve(browsersListCache)
ResolveCached(p) ==
    /\ passes[p].pc = "resolved"
    /\ LET l == lint(p, passes[p].browsersList)
       IN  Advance("resolve", p, l.pass, l.err)
    /\ UNCHANGED <<phase, workspaceFolder, linter, editorSettings,
                   needUpdateConfig, browsersListCache, projectFiles,
                   allDocuments, published, basis, nEvents>>

\* a resolver that answers its scans one at a time, in the order they were
\* asked for
ScanSettledInOrder(p) ==
    /\ passes[p].pc = "scanning"
    /\ \A q \in 1..(p - 1) : passes[q].pc # "scanning"
    /\ ~MicrotaskPending
    /\ \E files \in passes[p].seen \cup {projectFiles} :
         LET config == scan(passes[p].fsPath, passes[p].settings.browsers, files)
             l == lint(p, config.json)
         IN  IF config.ok
             THEN /\ browsersListCache' = config.json
                  /\ needUpdateConfig' = FALSE
                  /\ Advance("scan", p, l.pass, l.err)
             ELSE /\ UNCHANGED <<browsersListCache, needUpdateConfig>>
                  /\ Advance("scan", p, [passes[p] EXCEPT !.pc = "rejected", !.seen = {}],
                             "scan failed")
    /\ UNCHANGED <<phase, workspaceFolder, linter, editorSettings, projectFiles,
                   allDocuments, published, basis, nEvents>>

\* configResolver.scan settles (lines 137-145); it read the declarations as
\* they are now, or as they were at some time since it started
ScanSettled(p) ==
    /\ passes[p].pc = "scanning"
    /\ ~MicrotaskPending
    /\ \E files \in passes[p].seen \cup {projectFiles} :
         LET config == scan(passes[p].fsPath, passes[p].settings.browsers, files)
             l == lint(p, config.json)
         IN  IF config.ok
             THEN /\ browsersListCache' = config.json
                  /\ needUpdateConfig' = FALSE
                  /\ Advance("scan", p, l.pass, l.err)
             ELSE /\ UNCHANGED <<browsersListCache, needUpdateConfig>>
                  /\ Advance("scan", p, [passes[p] EXCEPT !.pc = "rejected", !.seen = {}],
                             "scan failed")
    /\ UNCHANGED <<phase, workspaceFolder, linter, editorSettings, projectFiles,
                   allDocuments, published, basis, nEvents>>

\* collect dropping the findings classified below the messageLevel cutoff
collectFiltered(findings) ==
    LET kept == SelectSeq(findings,
                          LAMBDA f : FlagSeverity(f) <= severityLevel(editorSettings.messageLevel))
    IN  [k \in 1..Len(kept) |-> makeDiagnostic(kept[k])]

\* the diagnostics array after the onFeatureUsage calls of one run (line 173)
collect(findings) == [k \in 1..Len(findings) |-> makeDiagnostic(findings[k])]

\* a process continuation that clears the document's diagnostics when the
\* text does not parse
ProcessSettledClearing(p) ==
    /\ passes[p].pc = "processing"
    /\ ~MicrotaskPending
    /\ Commit([passes EXCEPT ![p] = Finished], batches)
    /\ LET failed == ParseFails(passes[p].text, passes[p].syntax)
           findings == IF failed THEN <<>>
                       ELSE Findings(passes[p].text, passes[p].browsersList,
                                     passes[p].ignore)
           pub == Publication(passes[p].uri, collect(findings), findings)
       IN  /\ published' = Receive(pub)
           /\ basis' = [basis EXCEPT ![passes[p].uri] = NoBasis]
           /\ lastStep' = [Step("process", passes[p].uri, FALSE, <<>>) EXCEPT
                             !.sent = <<pub>>,
                             !.logged = IF failed THEN 1 ELSE 0,
                             !.pass = [passes[p] EXCEPT !.pc =
                                         IF failed THEN "parseFailed"
                                         ELSE "published"]]
    /\ UNCHANGED <<phase, workspaceFolder, linter, editorSettings,
                   needUpdateConfig, browsersListCache, projectFiles,
                   allDocuments, nEvents>>

\* postcss(...).process settles (lines 176-183)
ProcessSettled(p) ==
    /\ passes[p].pc = "processing"
    /\ ~MicrotaskPending
    /\ Commit([passes EXCEPT ![p] = Finished], batches)
    /\ IF ParseFails(passes[p].text, passes[p].syntax)
       THEN /\ published' = published
            /\ basis' = basis
            /\ lastStep' = [Step("process", passes[p].uri, FALSE, <<>>) EXCEPT
                              !.logged = 1,
                              !.pass = [passes[p] EXCEPT !.pc = "parseFailed"]]
       ELSE LET findings == Findings(passes[p].text, passes[p].browsersList, passes[p].ignore)
                pub == Publication(passes[p].uri, collect(findings), findings)
            IN  /\ published' = Receive(pub)
                /\ basis' = [basis EXCEPT ![passes[p].uri] =
                                 IF passes[p].settings = editorSettings
                                 THEN [text |-> passes[p].text,
                                       settings |-> editorSettings]
                                 ELSE NoBasis]
                /\ lastStep' = [Step("process", passes[p].uri, FALSE, <<>>) EXCEPT
                                  !.sent = <<pub>>,
                                  !.pass = [passes[p] EXCEPT !.pc = "published"]]
    /\ UNCHANGED <<phase, workspaceFolder, linter, editorSettings,
                   needUpdateConfig, browsersListCache, projectFiles,
                   allDocuments, nEvents>>

\* the messages and promise reactions of an initialised server
Deliver ==
    \/ \E settings \in SettingsDomain : ChangeConfiguration(settings)
    \/ \E files \in ProjectStates : ChangeWatchedFiles(files)
    \/ \E uri \in Uris, text \in Texts : DidOpen(uri, text)
    \/ \E uri \in Uris, text \in Texts : DidChange(uri, text)
    \/ \E uri \in Uris : DidSave(uri)
    \/ \E uri \in Uris : DidClose(uri)
    \/ \E p \in 1..Len(passes) : ResolveCached(p)
    \/ \E p \in 1..Len(passes) : ScanSettled(p)
    \/ \E p \in 1..Len(passes) : ProcessSettled(p)

Next ==
    \/ \E rootPath \in {<<"", "w">>}, resolved \in {"found", "missing", "failed"},
          initializationOptions \in InitializationOptions :
            Initialize(rootPath, resolved, initializationOptions)
    \/ Deliver

Spec == Init /\ [][Next]_vars

\* the usageInfo records the engine can hand to onFeatureUsage: every source
\* range within the bounds, under every browser list
Problems ==
    {UsageInfo([feature |-> "css-grid",
                source |-> [start |-> Pos(l1, c1), end |-> Pos(l2, c2)]], b) :
        l1 \in 1..MaxLine, c1 \in 1..MaxColumn,
        l2 \in 1..MaxLine, c2 \in 1..MaxColumn,
        b \in {<<"ie >= 9">>, <<"last 2 versions">>}}

\* a configured server, before any document is open
InitDiagnostic ==
    /\ phase = "ready"
    /\ workspaceFolder = <<"", "w">>
    /\ linter = "doiuse"
    /\ editorSettings \in SettingsDomain
    /\ needUpdateConfig = TRUE
    /\ browsersListCache = <<>>
    /\ projectFiles = NoProject
    /\ allDocuments = <<>>
    /\ passes = <<>>
    /\ batches = <<>>
    /\ published = [u \in Uris |-> [known |-> FALSE, diagnostics |-> <<>>]]
    /\ basis = [u \in Uris |-> NoBasis]
    /\ lastStep = Step("config", "", FALSE, <<>>)
    /\ nEvents = 0

\* one onFeatureUsage callback (line 173): makeDiagnostic(usageInfo)
BuildDiagnostic(problem) ==
    /\ lastStep' = [Step("makeDiagnostic", "", FALSE, <<>>) EXCEPT
                      !.input = problem,
                      !.result = makeDiagnostic(problem)]
    /\ UNCHANGED <<phase, workspaceFolder, linter, editorSettings,
                   needUpdateConfig, browsersListCache, projectFiles,
                   allDocuments, passes, batches, published, basis, nEvents>>

NextDiagnostic == \E problem \in Problems : BuildDiagnostic(problem)

SpecDiagnostic == InitDiagnostic /\ [][NextDiagnostic]_vars

\* validateDocument picks the syntax for a document's language (lines
\* 153-154) and hands it to process with the text (line 177)
SelectSyntax(language, text) ==
    /\ lastStep' = [Step("getSyntax", "", FALSE, <<>>) EXCEPT
                      !.input = <<language, text>>,
                      !.result = [syntax |-> getSyntax(language),
                                  grammar |-> GrammarOf(processOptions(getSyntax(language))),
                                  parseFails |-> ParseFails(text, getSyntax(language))]]
    /\ UNCHANGED <<phase, workspaceFolder, linter, editorSettings,
                   needUpdateConfig, browsersListCache, projectFiles,
                   allDocuments, passes, batches, published, basis, nEvents>>

NextSyntax == \E language \in Languages, text \in Texts : SelectSyntax(language, text)

SpecSyntax == InitDiagnostic /\ [][NextSyntax]_vars

\* configResolver hands the text of a declaration file to the parser
\* registered for it (lines 128-130)
ParseBrowsersList(data) ==
    /\ lastStep' = [Step("browsersListParser", "", FALSE, <<>>) EXCEPT
                      !.input = data,
                      !.result = browsersListParser(data)]
    /\ UNCHANGED <<phase, workspaceFolder, linter, editorSettings,
                   needUpdateConfig, browsersListCache, projectFiles,
                   allDocuments, passes, batches, published, basis, nEvents>>

NextParser == \E data \in Data : ParseBrowsersList(data)

SpecParser == Init /\ [][NextParser]_vars

\* an initialised server in a workspace that holds declarations, with two
\* documents opened before the first configuration has arrived (both open
\* handlers threw on the undefined settings): what Initialize, a change of
\* the watched files and two DidOpen lead to
InitOpen ==
    /\ phase = "ready"
    /\ workspaceFolder = <<"", "w">>
    /\ linter = "doiuse"
    /\ editorSettings = Undefined
    /\ needUpdateConfig = TRUE
    /\ browsersListCache = <<>>
    /\ projectFiles \in ProjectStates
                        \cup {[root |-> Malformed, dist |-> File(<<"> 1%">>)]}
    /\ allDocuments = <<[uri |-> "u1", text |-> "grid"],
                        [uri |-> "u2", text |-> "grid"]>>
    /\ passes = <<>>
    /\ batches = <<>>
    /\ published = [u \in Uris |-> [known |-> FALSE, diagnostics |-> <<>>]]
    /\ basis = [u \in Uris |-> NoBasis]
    /\ lastStep = Step("open", "u2", TRUE, <<>>)
    /\ nEvents = MaxEvents - MaxOpenEvents

SpecOpen == InitOpen /\ [][Deliver]_vars

\* the document whose target resolution is not assumed to complete
Hung == "u1"

\* a settled external call of a pass of another document
SettleOther ==
    \E p \in 1..Len(passes) :
        passes[p].uri # Hung /\ (ScanSettled(p) \/ ProcessSettled(p))

\* an initialised server that has had its first configuration (validation
\* as the user types, no explicit browsers) in a workspace with one
\* declaration at its root, before any document is opened: what Initialize,
\* a change of the watched files and ChangeConfiguration lead to
InitFair ==
    /\ phase = "ready"
    /\ workspaceFolder = <<"", "w">>
    /\ linter = "doiuse"
    /\ editorSettings = Settings("Warning", <<>>, <<>>, "onType")
    /\ needUpdateConfig = TRUE
    /\ browsersListCache = <<>>
    /\ projectFiles = [root |-> File(<<"last 2 versions">>), dist |-> NoFile]
    /\ allDocuments = <<>>
    /\ passes = <<>>
    /\ batches = <<>>
    /\ published = [u \in Uris |-> [known |-> FALSE, diagnostics |-> <<>>]]
    /\ basis = [u \in Uris |-> NoBasis]
    /\ lastStep = Step("config", "", FALSE, <<>>)
    /\ nEvents = MaxEvents - MaxFairEvents

\* the event loop of the server: a queued promise reaction runs as soon as
\* the running handler returns, and the scans and engine runs of the
\* documents other than Hung complete. Nothing is assumed of the scans of
\* Hung, nor of the messages the client sends.
SpecFair ==
    /\ InitFair
    /\ [][Deliver]_vars
    /\ WF_vars(\E p \in 1..Len(passes) : ResolveCached(p))
    /\ WF_vars(SettleOther)

(* ------------------------------ properties --------------------------- *)

\* the publications a pass made in the step that led here
PassSent == IF lastStep.kind = "process" THEN Range(lastStep.sent) ELSE {}

\* the passes in flight, and the one the last step advanced
Live == Range(passes) \cup (IF lastStep.pass = Finished THEN {} ELSE {lastStep.pass})

\* the ignoreFiles of the settings a pass started under match its
\* workspace-relative path
IgnoredAtStart(pass) ==
    \E i \in 1..Len(pass.settings.ignoreFiles) :
        MatchGlob(pass.settings.ignoreFiles[i],
                  relative(workspaceFolder, uriToFilePath(pass.uri)))

LevelSeverity ==
    IF editorSettings.messageLevel = "Error" THEN SeverityError
    ELSE IF editorSettings.messageLevel = "Warning" THEN SeverityWarning
    ELSE SeverityInformation

\* C1 as stated: the severity of every diagnostic built from a finding is
\* the classification of the finding's flags (missing: Error, partial only:
\* Warning, neither: Information).
C1_SeverityFromFlags ==
    \A pub \in PassSent : \A k \in 1..Len(pub.diagnostics) :
        pub.diagnostics[k].severity = FlagSeverity(pub.findings[k])

\* C1 as amended: the severity of every diagnostic built from a finding is
\* the one the configured messageLevel names, the same for every finding of
\* the publication whatever its flags and message.
C1_SeverityFromMessageLevel ==
    \A pub \in PassSent : \A k \in 1..Len(pub.diagnostics) :
        pub.diagnostics[k].severity = LevelSeverity

\* C1 witness: a publication with a missing and a partial finding, whose
\* diagnostics carry one severity.
C1_Witness ==
    \E pub \in PassSent :
        /\ Len(pub.diagnostics) >= 2
        /\ pub.findings[1].missing /\ pub.findings[2].partial
        /\ pub.diagnostics[1].severity = pub.diagnostics[2].severity

\* C2 as stated: a finding whose classification is below the messageLevel
\* cutoff (a Warning under messageLevel Error) is not in the published set.
C2_CutoffFilters ==
    \A pub \in PassSent : \A k \in 1..Len(pub.findings) :
        FlagSeverity(pub.findings[k]) > LevelSeverity
            => \A j \in 1..Len(pub.diagnostics) :
                   pub.diagnostics[j].code # pub.findings[k].feature

\* C2 as amended: every publication of a pass holds one diagnostic per
\* finding the engine delivered, in delivery order; messageLevel drops none.
C2_EveryFindingPublished ==
    \A pub \in PassSent :
        /\ Len(pub.diagnostics) = Len(pub.findings)
        /\ \A k \in 1..Len(pub.findings) :
               pub.diagnostics[k].code = pub.findings[k].feature

\* C2 witness: under messageLevel Error a partial finding is published.
C2_Witness ==
    \E pub \in PassSent : \E k \in 1..Len(pub.findings) :
        /\ editorSettings.messageLevel = "Error"
        /\ pub.findings[k].partial
        /\ k <= Len(pub.diagnostics)
        /\ pub.diagnostics[k].code = pub.findings[k].feature

\* C3 as stated: a pass for a document whose path matches an ignoreFiles
\* glob publishes an empty diagnostic list for its uri.
C3_IgnoredPublishesEmpty ==
    \A i \in 1..Len(lastStep.started) :
        lastStep.started[i].pc = "ignored"
            => \E j \in 1..Len(lastStep.sent) :
                   /\ lastStep.sent[j].uri = lastStep.started[i].uri
                   /\ lastStep.sent[j].diagnostics = <<>>

\* C4: a pass started while the document's path matches an ignore glob ends
\* at once: it never waits for a target, never runs the engine and never
\* publishes.
C4_IgnoredNeverPublishes ==
    /\ \A i \in 1..Len(lastStep.started) :
           IgnoredAtStart(lastStep.started[i]) => lastStep.started[i].pc = "ignored"
    /\ \A pass \in Live : ~IgnoredAtStart(pass)

\* C4 witness: a pass was started for an ignored document whose text uses
\* features the project's browsers lack.
C4_Witness ==
    \E i \in 1..Len(lastStep.started) :
        /\ IgnoredAtStart(lastStep.started[i])
        /\ lastStep.started[i].text = "grid"
        /\ projectFiles.root.json # <<>>

\* C5: a content change starts a pass, for that document only, exactly when
\* run is onType; a save exactly when run is onSave; neither handler
\* publishes by itself, and every pass in flight that a content change
\* started was started under onType, every one a save started under onSave.
C5_TriggerPolicy ==
    /\ lastStep.kind \in {"open", "change"} =>
           /\ UrisOf(lastStep.started) =
                  IF editorSettings.run = "onType" THEN <<lastStep.uri>> ELSE <<>>
           /\ lastStep.sent = <<>>
    /\ lastStep.kind = "save" =>
           /\ UrisOf(lastStep.started) =
                  IF editorSettings.run = "onSave" THEN <<lastStep.uri>> ELSE <<>>
           /\ lastStep.sent = <<>>
    /\ \A pass \in Live :
           /\ pass.trigger \in {"open", "change"} => pass.settings.run = "onType"
           /\ pass.trigger = "save" => pass.settings.run = "onSave"

\* C5 witness: a content change of an open document under onSave.
C5_Witness ==
    /\ lastStep.kind = "change"
    /\ editorSettings.run = "onSave"
    /\ lastStep.started = <<>>

\* C6 as stated: after a configuration change the cache is marked stale and
\* no pass the handler started is answered from the cache.
C6_ConfigurationClearsCache ==
    lastStep.kind = "config" =>
        /\ needUpdateConfig
        /\ \A i \in 1..Len(lastStep.started) : ~lastStep.started[i].cacheHit

\* C7 as stated: a target resolution started under settings with a non-empty
\* browsers list returns that list.
C7_ExplicitBrowsersWin ==
    \A pass \in Live :
        /\ pass.pc \in {"resolved", "processing", "published", "parseFailed"}
        /\ pass.settings.browsers # <<>>
        => pass.browsersList = pass.settings.browsers

\* C8 as stated: right after the watched-files handler the cache is marked
\* stale and a pass has been started for every open document.
C8_WatchedFilesRevalidateAll ==
    lastStep.kind = "watched" =>
        /\ needUpdateConfig
        /\ UrisOf(lastStep.started) = UrisOf(allDocuments)

\* C9 as stated: before the first configuration the document and
\* watched-files handlers end without an exception and without output.
C9_UninitializedIsQuiet ==
    /\ editorSettings = Undefined
    /\ lastStep.kind \in {"open", "change", "save", "watched"}
    => /\ ~lastStep.threw
       /\ lastStep.sent = <<>>
       /\ lastStep.shown = <<>>

\* C10 as stated: in a batch, whatever happens to one document, a pass is
\* started for every other open document.
C10_SiblingsStart ==
    /\ lastStep.kind \in {"config", "watched"}
    /\ editorSettings # Undefined
    => \A d \in 1..Len(allDocuments) :
           \E i \in 1..Len(lastStep.started) :
               lastStep.started[i].uri = allDocuments[d].uri

\* the pass of the state before a step that the step advanced
IsAdvanced(p) ==
    /\ InFlight(passes[p])
    /\ passes[p].uri = lastStep'.pass.uri
    /\ passes[p].batch = lastStep'.pass.batch

\* C11 as stated: a non-empty error report is sent exactly when the last
\* promise of a batch settles and some pipeline of the batch has failed
\* unexpectedly (a rejected scan, an engine that cannot be called); no other
\* step sends a report.
C11_ErrorReport ==
    [][/\ lastStep'.kind \notin {"resolve", "scan"} => lastStep'.shown = <<>>
       /\ lastStep'.kind \in {"resolve", "scan"} =>
              \A p \in 1..Len(passes) :
                  IsAdvanced(p) =>
                      LET b == passes[p].batch
                          failed == \/ batches[b].errors # <<>>
                                    \/ lastStep'.pass.pc = "rejected"
                      IN  lastStep'.shown # <<>>
                              <=> (batches[b].waiting = {p} /\ failed)]_vars

\* C12: a document-closed event sends exactly one publication: for the closed
\* uri, with an empty diagnostic list, which is what the client then holds
\* for that uri; nothing is sent for another uri.
C12_CloseClearsOnce ==
    lastStep.kind = "close" =>
        /\ Len(lastStep.sent) = 1
        /\ lastStep.sent[1].uri = lastStep.uri
        /\ lastStep.sent[1].diagnostics = <<>>
        /\ published[lastStep.uri] = [known |-> TRUE, diagnostics |-> <<>>]

\* C12 witness: a document is closed while a pass for it is still in flight.
C12_Witness ==
    /\ lastStep.kind = "close"
    /\ lastStep.sent # <<>>
    /\ \E p \in 1..Len(passes) :
           InFlight(passes[p]) /\ passes[p].uri = lastStep.uri

\* C13 as stated: a pass whose target resolution gave an empty browser list
\* never hands the document to the engine: no such pass is processing, has
\* had its text parsed or has published what the engine found.
C13_EmptyTargetSkipsEngine ==
    \A pass \in Live :
        pass.pc \in {"processing", "parseFailed", "published"}
            => pass.browsersList # <<>>

\* C14: the step in which the scan of a document ends in a parse failure
\* sends no publication (what the client holds for every uri stays as it
\* was), leaves the error accumulator of every batch as it was and sends no
\* error report.
C14_ParseFailureIsSilent ==
    [][lastStep'.kind = "process" /\ lastStep'.pass.pc = "parseFailed" =>
           /\ lastStep'.sent = <<>>
           /\ published' = published
           /\ lastStep'.shown = <<>>
           /\ \A b \in 1..Len(batches') : batches'[b].errors = batches[b].errors]_vars

\* C14 witness: a text fails to parse while the client holds diagnostics of
\* an earlier pass for the document.
C14_Witness ==
    /\ lastStep.kind = "process"
    /\ lastStep.pass.pc = "parseFailed"
    /\ published[lastStep.uri].diagnostics # <<>>

\* C15: initialize, when the engine module is not found, fails with the
\* retryable error carrying the install hint if non-empty initial settings
\* were supplied, and completes without an error (and without the engine) if
\* they were absent or empty; when the module is found it answers with the
\* capabilities and the engine is loaded.
C15_InitializeOutcome ==
    lastStep.kind = "initialize" =>
        LET resolved == lastStep.input[1]
            options == lastStep.input[2]
        IN  /\ resolved = "missing" /\ options = "settings" =>
                   lastStep.result = "retry" /\ phase = "created"
            /\ resolved = "missing" /\ options \in {"absent", "empty"} =>
                   /\ lastStep.result = "null"
                   /\ lastStep.logged = 0
                   /\ phase = "ready"
                   /\ linter = "undefined"
            /\ resolved = "found" =>
                   /\ lastStep.result = "capabilities"
                   /\ phase = "ready"
                   /\ linter = "doiuse"

\* C15 witness: the module is missing and the initial settings are an empty
\* object.
C15_Witness ==
    /\ lastStep.kind = "initialize"
    /\ lastStep.input = <<"missing", "empty">>
    /\ lastStep.result = "null"

\* the directory whose declaration is the nearest to the document of a pass:
\* "dist", "root" or "none"
ScopeOf(pass) == scan(uriToFilePath(pass.uri), <<>>, projectFiles).from

\* C16 as stated: of the passes of one batch that resolve their target from
\* the declarations of the same directory scope, at most one scans the
\* filesystem; the others wait for it or are answered from the cache.
C16_OneScanPerScope ==
    \A p, q \in 1..Len(passes) :
        /\ passes[p].pc = "scanning" /\ passes[q].pc = "scanning"
        /\ passes[p].batch = passes[q].batch
        /\ passes[p].settings.browsers = <<>>
        /\ ScopeOf(passes[p]) = "root" /\ ScopeOf(passes[q]) = "root"
        => p = q

\* C17 as stated: a pass for a document whose nearest declaration is the one
\* under dist/, started while the cache holds the target read from the root
\* declaration, resolves to the target of dist/.
C17_OwnScopeTarget ==
    \A i \in 1..Len(lastStep.started) :
        LET pass == lastStep.started[i]
        IN  /\ pass.cacheHit
            /\ pass.settings.browsers = <<>>
            /\ ScopeOf(pass) = "dist"
            /\ browsersListCache = projectFiles.root.json
            => pass.browsersList = projectFiles.dist.json

\* C18 as stated: when a pass answered from the cache publishes for a
\* document whose previous publication came from a pass over the same text
\* under the same settings, with no settings change since, the diagnostics
\* the client holds for the document stay as they were.
C18_RevalidationIsIdempotent ==
    [][/\ lastStep'.kind = "process"
       /\ lastStep'.pass.pc = "published"
       /\ lastStep'.pass.cacheHit
       /\ lastStep'.pass.settings = editorSettings
       /\ basis[lastStep'.uri] = [text |-> lastStep'.pass.text,
                                 settings |-> editorSettings]
       => published'[lastStep'.uri].diagnostics
              = published[lastStep'.uri].diagnostics]_vars

\* C19: the range of the diagnostic built from a finding has the finding's
\* start line, start column and end line each decremented by one, and the
\* finding's end column as it is.
C19_RangeConversion ==
    lastStep.kind = "makeDiagnostic" =>
        LET source == lastStep.input.source
            range == lastStep.result.range
        IN  /\ range.start.line = source.start.line - 1
            /\ range.start.character = source.start.column - 1
            /\ range.end.line = source.end.line - 1
            /\ range.end.character = source.end.column

\* C19 witness: a finding that starts and ends in column 2 gives a range from
\* character 1 to character 2.
C19_Witness ==
    /\ lastStep.kind = "makeDiagnostic"
    /\ lastStep.input.source.start.column = 2
    /\ lastStep.input.source.end.column = 2
    /\ lastStep.result.range.start.character = 1
    /\ lastStep.result.range.end.character = 2

\* the list the description of the bare-list format gives: the lines of the
\* text (split at LF or CRLF) that do not start with '#', each trimmed, those
\* empty after trimming dropped
DescribedList(data) ==
    LET lines == SelectSeq(split(data), LAMBDA line : line = <<>> \/ Head(line) # "#")
        trimmed == [k \in 1..Len(lines) |-> trim(lines[k])]
    IN  SelectSeq(trimmed, LAMBDA line : line # <<>>)

\* C20 as stated: for every text the parser returns the described list; no
\* entry is empty, a '#' inside a line removes nothing, and a comment on a
\* last line without a line break is removed.
C20_ParserMatchesDescription ==
    lastStep.kind = "browsersListParser" =>
        lastStep.result = DescribedList(lastStep.input)

\* C21: the syntax chosen for a language identifier is the Less adapter for
\* 'less', the SCSS adapter for 'scss', the indented-syntax adapter for
\* 'sass', 'sass-indented' and 'stylus', and none for every other
\* identifier, 'css' included; with none the text is parsed with the default
\* CSS grammar.
C21_SyntaxFor ==
    lastStep.kind = "getSyntax" =>
        LET language == lastStep.input[1]
            syntax == lastStep.result.syntax
        IN  /\ language = "less" => syntax = "postcss-less"
            /\ language = "scss" => syntax = "postcss-scss"
            /\ language \in {"sass", "sass-indented", "stylus"} => syntax = "sugarss"
            /\ language \notin {"less", "scss", "sass", "sass-indented", "stylus"} =>
                   syntax = "false" /\ lastStep.result.grammar = "css"

\* C21 witness: a document of language 'sass' gets the indented-syntax
\* adapter, under which a text with a // comment does not parse.
C21_Witness ==
    /\ lastStep.kind = "getSyntax"
    /\ lastStep.input = <<"sass", "slashes">>
    /\ lastStep.result.syntax = "sugarss"
    /\ lastStep.result.parseFails

\* C22 as stated: when the error report of a batch is sent, no pipeline of
\* that batch is still scanning its document: each has published or has had
\* its failure recorded.
C22_ReportAfterPipelines ==
    lastStep.shown # <<>> =>
        \A p \in 1..Len(passes) :
            passes[p].batch = lastStep.pass.batch => passes[p].pc # "processing"

\* the browser lists that come from a browsers setting
ExplicitLists == {settings.browsers : settings \in SettingsDomain} \ {<<>>}

\* C23 as stated: once no scan is in flight, a cache marked valid that was
\* filled from the declarations on disk holds what the declarations say
\* now, for one of the documents: never what a scan started before the last
\* change of the watched files had read.
C23_InvalidationNotLost ==
    /\ ~needUpdateConfig
    /\ \A p \in 1..Len(passes) : passes[p].pc # "scanning"
    /\ editorSettings.browsers = <<>>
    /\ browsersListCache \notin ExplicitLists
    => browsersListCache \in
           {scan(uriToFilePath(u), <<>>, projectFiles).json : u \in Uris}

\* C24 as stated: once a pass over the newest text of an open document has
\* published, and no other pass for the document is in flight, a pass
\* started over an older text does not publish over it.
C24_NewestPassWins ==
    [][/\ lastStep'.kind = "process"
       /\ lastStep'.pass.pc = "published"
       /\ IsOpen(lastStep'.uri)
       /\ basis[lastStep'.uri].text = DocumentOf(lastStep'.uri).text
       /\ \A p \in 1..Len(passes') : passes'[p].uri # lastStep'.uri
       => lastStep'.pass.text = DocumentOf(lastStep'.uri).text]_vars

\* C27 as stated: a pass publishes a non-empty diagnostic list only for a
\* document that is open: after a close nothing but the empty list of the
\* close is published for the uri, unless the document is opened again.
C27_ClosedStaysClear ==
    \A pub \in PassSent : pub.diagnostics # <<>> => IsOpen(pub.uri)

\* C28 as stated: what a pass publishes is computed from the settings that
\* were live when it started: the severity of every diagnostic is the one
\* their messageLevel names, and the ignored features handed to the engine
\* are their ignore list.
C28_OneSettingsInstance ==
    lastStep.kind = "process" /\ lastStep.pass.pc = "published" =>
        /\ lastStep.pass.ignore = lastStep.pass.settings.ignore
        /\ \A pub \in PassSent : \A k \in 1..Len(pub.diagnostics) :
               pub.diagnostics[k].severity
                   = severityLevel(lastStep.pass.settings.messageLevel)

\* C25: a pass publishes once, for its own uri, the diagnostics built from
\* the findings the engine delivered for its text, target and ignore list,
\* one per finding in delivery order; that list replaces whatever the client
\* held for the uri.
C25_TotalReplacement ==
    lastStep.kind = "process" /\ lastStep.pass.pc = "published" =>
        LET pass == lastStep.pass
            findings == Findings(pass.text, pass.browsersList, pass.ignore)
        IN  /\ Len(lastStep.sent) = 1
            /\ lastStep.sent[1].uri = pass.uri
            /\ Len(lastStep.sent[1].diagnostics) = Len(findings)
            /\ \A k \in 1..Len(findings) :
                   /\ lastStep.sent[1].diagnostics[k].code = findings[k].feature
                   /\ lastStep.sent[1].diagnostics[k].range.start.line
                          = findings[k].source.start.line - 1
            /\ published[pass.uri].diagnostics = lastStep.sent[1].diagnostics

\* C25 witness: a pass publishes its findings while a pass for the other
\* document is in flight.
C25_Witness ==
    /\ lastStep.kind = "process"
    /\ lastStep.pass.pc = "published"
    /\ lastStep.sent[1].diagnostics # <<>>
    /\ \E p \in 1..Len(passes) :
           InFlight(passes[p]) /\ passes[p].uri # lastStep.uri

\* a pass of a document other than Hung is in flight
OthersInFlight ==
    \E p \in 1..Len(passes) : InFlight(passes[p]) /\ passes[p].uri # Hung

\* a pass of Hung waits for a scan that has not completed
HungWaiting ==
    \E p \in 1..Len(passes) : passes[p].uri = Hung /\ passes[p].pc = "scanning"

\* C26: whatever becomes of the scans of one document, the passes of the other
\* documents all come to an end (published, parse failure logged, or
\* rejected), and while a scan of the first document is outstanding the
\* server still takes the next notification.
C26_OthersComplete ==
    /\ OthersInFlight ~>
           (/\ ~OthersInFlight
            /\ lastStep.uri # Hung
            /\ lastStep.pass.pc \in {"published", "parseFailed", "rejected"})
    /\ [](HungWaiting /\ CanDeliver =>
             /\ ENABLED (\E settings \in SettingsDomain : ChangeConfiguration(settings))
             /\ ENABLED (\E files \in ProjectStates : ChangeWatchedFiles(files)))

\* C26 witness: a pass of another document has just published while an
\* older pass of the first document still waits for its scan.
C26_Witness ==
    /\ lastStep.kind = "process"
    /\ lastStep.uri # Hung
    /\ lastStep.pass.pc = "published"
    /\ \E p \in 1..Len(passes) :
           /\ passes[p].uri = Hung
           /\ passes[p].pc = "scanning"
           /\ passes[p].batch <= lastStep.pass.batch

====
